---------------------------- MODULE Spec2Model ----------------------------
(***************************************************************************)
(* A model of the ETL notebook extract_transform_load.ipynb: extraction of *)
(* per-agency GDP tables from a parsed document, normalisation of the      *)
(* exchange-rate payload, the numeric transform, and the notebook's         *)
(* cell-by-cell driver with its log and file side effects.                 *)
(*                                                                         *)
(* Python strings are sequences of one-character strings.  Python dicts    *)
(* are sequences of <<key, value>> pairs with distinct keys, in insertion  *)
(* order.                                                                  *)
(***************************************************************************)
EXTENDS Integers, Sequences, FiniteSets, TLC

VARIABLES
    pc,                \* the statement of the notebook that runs next
    error,             \* the exception that ended the run, "" if none
    logfile,           \* the lines this run appended to gdps_logfile.txt
    files,             \* the data files this run wrote: name -> content
    net,               \* the network requests this run made, in order
    doc,               \* the remote document (the environment)
    cred,              \* whether currencylayer_apikey.txt exists
    quotes,            \* the rate API's response (the environment)
    gdptablestext, agencies, acronyms, gdps,
    rates, currency, gdps_transformed

vars == <<pc, error, logfile, files, net, doc, cred, quotes,
          gdptablestext, agencies, acronyms, gdps,
          rates, currency, gdps_transformed>>

(***************************************************************************)
(* Bounds of the model.                                                    *)
(***************************************************************************)
MaxLabelLen == 4      \* the longest source label of SpecAcronym
MaxQuotes == 2        \* the most entries of a quotes payload of SpecRates
MaxSources == 2       \* the most source keys of a RawTable of SpecTransform
MaxAgencies == 2      \* the most source labels of a document of SpecExtract
MaxRows == 3          \* the most rows of a sub-table body of SpecRows
MaxEntities == 3      \* the most entities of a RawTable of SpecOrder

None == [none |-> TRUE]

(***************************************************************************)
(* Strings.                                                                *)
(***************************************************************************)
Range(s) == {s[i] : i \in DOMAIN s}

\* the characters str.split() and str.strip() treat as whitespace
IsSpace(c) == c \in {" ", "\t", "\n"}

RECURSIVE SplitFrom(_, _, _, _)
SplitFrom(s, i, cur, acc) ==
    IF i > Len(s)
    THEN IF cur = <<>> THEN acc ELSE Append(acc, cur)
    ELSE IF IsSpace(s[i])
         THEN SplitFrom(s, i + 1, <<>>,
                        IF cur = <<>> THEN acc ELSE Append(acc, cur))
         ELSE SplitFrom(s, i + 1, Append(cur, s[i]), acc)

\* str.split() with no argument: maximal runs of non-whitespace
split(s) == SplitFrom(s, 1, <<>>, <<>>)

RECURSIVE LStrip(_)
LStrip(s) == IF s # <<>> /\ IsSpace(Head(s)) THEN LStrip(Tail(s)) ELSE s

RECURSIVE RStrip(_)
RStrip(s) ==
    IF s # <<>> /\ IsSpace(s[Len(s)])
    THEN RStrip(SubSeq(s, 1, Len(s) - 1))
    ELSE s

\* str.strip()
strip(s) == RStrip(LStrip(s))

\* ''.join(seq of strings)
RECURSIVE join(_)
join(ws) == IF ws = <<>> THEN <<>> ELSE Head(ws) \o join(Tail(ws))

(***************************************************************************)
(* Dicts.                                                                  *)
(***************************************************************************)
DictKeys(d) == [i \in DOMAIN d |-> d[i][1]]

DictHas(d, k) == \E i \in DOMAIN d : d[i][1] = k

DictGet(d, k) == d[CHOOSE i \in DOMAIN d : d[i][1] = k][2]

\* d[k] = v : an existing key keeps its position, a new key is appended
DictSet(d, k, v) ==
    IF DictHas(d, k)
    THEN [i \in DOMAIN d |-> IF d[i][1] = k THEN <<k, v>> ELSE d[i]]
    ELSE Append(d, <<k, v>>)

(***************************************************************************)
(* get_acronym                                                             *)
(***************************************************************************)
\* a seeded fault: the last character of each word instead of the first
get_acronym_lastchar(agency) ==
    LET words == split(agency)
    IN  join([i \in DOMAIN words |-> <<words[i][Len(words[i])]>>])

get_acronym(agency) ==
    LET words == split(agency)
    IN  join([i \in DOMAIN words |-> <<words[i][1]>>])

(***************************************************************************)
(* The parsed document.  doc.marker says whether a table with class        *)
(* 'wikitable' exists; doc.labels are the texts of the anchors in the      *)
(* cells of its first row; doc.bodies are the tbody elements of its second *)
(* row, each a sequence of rows, each row the sequence of its td elements.  *)
(***************************************************************************)
Ok(v) == [err |-> "", val |-> v]
Err(e) == [err |-> e, val |-> None]

\* list.index(x): the position of the first occurrence
Index(seq, x) ==
    CHOOSE i \in DOMAIN seq : seq[i] = x /\ \A j \in 1..(i - 1) : seq[j] # x

\* a td element: its text, and the text of its first anchor if it has one
NoAnchor == <<"no anchor">>
Td(anchor, text) == [anchor |-> anchor, text |-> text]
Plain(text) == Td(NoAnchor, text)
Link(text) == Td(text, text)

\* a seeded fault: only the rows with fewer than three cells are skipped
RECURSIVE GdpsOfRows_atleast3(_, _)
GdpsOfRows_atleast3(rows, acc) ==
    IF rows = <<>> THEN Ok(acc)
    ELSE LET cols == Head(rows)
         IN  IF Len(cols) < 3
             THEN GdpsOfRows_atleast3(Tail(rows), acc)
             ELSE IF cols[2].anchor = NoAnchor
                  THEN Err("AttributeError(no anchor)")
                  ELSE GdpsOfRows_atleast3(Tail(rows),
                           DictSet(acc, strip(cols[2].anchor),
                                   strip(cols[3].text)))

\* the loop body of get_gdps, folded over the rows of one tbody;
\* cols[1].find('a') is None in a cell without an anchor
RECURSIVE GdpsOfRows(_, _)
GdpsOfRows(rows, acc) ==
    IF rows = <<>> THEN Ok(acc)
    ELSE LET cols == Head(rows)
         IN  IF Len(cols) # 3
             THEN GdpsOfRows(Tail(rows), acc)
             ELSE IF cols[2].anchor = NoAnchor
                  THEN Err("AttributeError(no anchor)")
                  ELSE GdpsOfRows(Tail(rows),
                           DictSet(acc, strip(cols[2].anchor),
                                   strip(cols[3].text)))

get_gdps(htmltext, acronymlist, acronym) ==
    IF acronym \notin Range(acronymlist) THEN Err("ValueError")
    ELSE LET idx == Index(acronymlist, acronym)
         IN  IF idx > Len(htmltext.bodies) THEN Err("IndexError")
             ELSE GdpsOfRows(htmltext.bodies[idx], <<>>)

RECURSIVE AllGdpsFrom(_, _, _, _)
AllGdpsFrom(htmltext, acronymlist, ags, all_gdps) ==
    IF ags = <<>> THEN Ok(all_gdps)
    ELSE LET acronym == get_acronym(Head(ags))
             r == get_gdps(htmltext, acronymlist, acronym)
         IN  IF r.err # "" THEN r
             ELSE AllGdpsFrom(htmltext, acronymlist, Tail(ags),
                              DictSet(all_gdps, acronym, r.val))

get_all_gdps(htmltext, acronymlist, ags) ==
    AllGdpsFrom(htmltext, acronymlist, ags, <<>>)

(***************************************************************************)
(* get_exchange_rates: the normalisation of the 'quotes' mapping.          *)
(***************************************************************************)
USD == <<"U", "S", "D">>

StartsWithUSD(k) == Len(k) >= 3 /\ SubSeq(k, 1, 3) = USD

\* a seeded fault: the commented-out slice k[-3:] of the source
resub_last3(k) == IF Len(k) > 3 THEN SubSeq(k, Len(k) - 2, Len(k)) ELSE k

\* re.sub(r'^(USD)', r'', k)
resub(k) == IF StartsWithUSD(k) THEN SubSeq(k, 4, Len(k)) ELSE k

\* {re.sub(...): v for k, v in rates.items()}
RECURSIVE NormalizeFrom(_, _)
NormalizeFrom(items, acc) ==
    IF items = <<>> THEN acc
    ELSE NormalizeFrom(Tail(items),
                       DictSet(acc, resub(Head(items)[1]), Head(items)[2]))

normalize_rates(raw) == NormalizeFrom(raw, <<>>)

(***************************************************************************)
(* transform_gdps.  A DataFrame is [columns, rows]; a row is [name, cells] *)
(* with one cell per column.  A cell is a record [k, s, n, d]:             *)
(*   k = "str" : the Python string s                                       *)
(*   k = "nan" : NaN (a missing value)                                     *)
(*   k = "num" : the number n / d                                          *)
(*   k = "inf" : the float infinity of sign n                              *)
(* Exchange rates are [p, q], the number p / q with q a power of two and   *)
(* p > 0, so that binary floating point represents the products of the     *)
(* modelled inputs exactly.                                                *)
(***************************************************************************)
Str(s) == [k |-> "str", s |-> s, n |-> 0, d |-> 1]
NaN == [k |-> "nan", s |-> <<>>, n |-> 0, d |-> 1]
Num(n, d) == [k |-> "num", s |-> <<>>, n |-> n, d |-> d]
Inf(sign) == [k |-> "inf", s |-> <<>>, n |-> sign, d |-> 1]

\* a seeded fault: the index sorted by name, as for unordered dicts
UnionKeys_sorted(d, acc) ==
    LET all == Range(acc) \cup UNION {Range(DictKeys(d[j][2])) : j \in DOMAIN d}
        abc == <<"A", "B", "C", "D", "E", "F", "G", "H", "I", "J", "K", "L",
                 "M", "N", "O", "P", "Q", "R", "S", "T", "U", "V", "W", "X",
                 "Y", "Z">>
    IN  SelectSeq([i \in DOMAIN abc |-> <<abc[i]>>], LAMBDA n : n \in all)

\* the keys of the inner dicts, in order of first appearance
RECURSIVE UnionKeys(_, _)
UnionKeys(d, acc) ==
    IF d = <<>> THEN acc
    ELSE LET ks == DictKeys(Head(d)[2])
             new == SelectSeq(ks, LAMBDA k : k \notin Range(acc))
         IN  UnionKeys(Tail(d), acc \o new)

\* pd.DataFrame(gdps): a column per outer key, a row per inner key,
\* NaN where an inner dict lacks the key
DataFrame(d) ==
    LET index == UnionKeys(d, <<>>)
    IN  [columns |-> DictKeys(d),
         rows |-> [i \in DOMAIN index |->
                    [name |-> index[i],
                     cells |-> [j \in DOMAIN d |->
                                 IF DictHas(d[j][2], index[i])
                                 THEN Str(DictGet(d[j][2], index[i]))
                                 ELSE NaN]]]]

\* the cells of df
CellsOf(df) ==
    {df.rows[i].cells[j] : i \in DOMAIN df.rows, j \in DOMAIN df.columns}

\* an elementwise operation: f maps each cell of df to its new value
MapCells(df, f) ==
    [columns |-> df.columns,
     rows |-> [i \in DOMAIN df.rows |->
                [name |-> df.rows[i].name,
                 cells |-> [j \in DOMAIN df.rows[i].cells |->
                             f[df.rows[i].cells[j]]]]]]

\* a seeded fault: only the first comma is removed (re.sub with count=1)
RECURSIVE StripFirstComma(_)
StripFirstComma(s) ==
    IF s = <<>> THEN <<>>
    ELSE IF Head(s) = "," THEN Tail(s)
         ELSE <<Head(s)>> \o StripFirstComma(Tail(s))

\* re.sub(',', '', s): every occurrence
StripCommas(s) == SelectSeq(s, LAMBDA c : c # ",")

\* df.replace(',', '', regex=True, inplace=True)
replace(df) ==
    MapCells(df, [c \in CellsOf(df) |->
                   IF c.k = "str" THEN Str(StripCommas(c.s)) ELSE c])

DigitVal == [c \in {"0", "1", "2", "3", "4", "5", "6", "7", "8", "9"} |->
               CASE c = "0" -> 0 [] c = "1" -> 1 [] c = "2" -> 2
                 [] c = "3" -> 3 [] c = "4" -> 4 [] c = "5" -> 5
                 [] c = "6" -> 6 [] c = "7" -> 7 [] c = "8" -> 8
                 [] c = "9" -> 9]

IsDigit(c) == c \in DOMAIN DigitVal

RECURSIVE TakeDigits(_)
TakeDigits(s) ==
    IF s # <<>> /\ IsDigit(Head(s))
    THEN <<Head(s)>> \o TakeDigits(Tail(s))
    ELSE <<>>

Drop(s, n) == SubSeq(s, n + 1, Len(s))

RECURSIVE DigitsToInt(_, _)
DigitsToInt(ds, acc) ==
    IF ds = <<>> THEN acc
    ELSE DigitsToInt(Tail(ds), 10 * acc + DigitVal[Head(ds)])

RECURSIVE Pow10(_)
Pow10(n) == IF n = 0 THEN 1 ELSE 10 * Pow10(n - 1)

UpperCase == <<"A", "B", "C", "D", "E", "F", "G", "H", "I", "J", "K", "L", "M",
               "N", "O", "P", "Q", "R", "S", "T", "U", "V", "W", "X", "Y", "Z">>
LowerCase == <<"a", "b", "c", "d", "e", "f", "g", "h", "i", "j", "k", "l", "m",
               "n", "o", "p", "q", "r", "s", "t", "u", "v", "w", "x", "y", "z">>

Lower(c) ==
    IF c \in Range(UpperCase) THEN LowerCase[Index(UpperCase, c)] ELSE c

\* str.lower()
lower(s) == [i \in DOMAIN s |-> Lower(s[i])]

InfWords == { <<"i", "n", "f">>,
              <<"i", "n", "f", "i", "n", "i", "t", "y">> }

\* pandas' conversion of one string: leading blanks, a sign, digits with an
\* optional decimal point, trailing blanks; failing that, a signed
\* 'inf' / 'infinity' in any case; failing that, an error, coerced to NaN.
\* (The exponent part of the numeral grammar needs an 'e', which no
\* modelled text has.)
floatify(s) ==
    LET t == LStrip(s)
        signed == t # <<>> /\ Head(t) \in {"+", "-"}
        sign == IF t # <<>> /\ Head(t) = "-" THEN -1 ELSE 1
        u == IF signed THEN Tail(t) ELSE t
        ip == TakeDigits(u)
        u2 == Drop(u, Len(ip))
        hasdot == u2 # <<>> /\ Head(u2) = "."
        u3 == IF hasdot THEN Tail(u2) ELSE u2
        fp == IF hasdot THEN TakeDigits(u3) ELSE <<>>
        rest == LStrip(Drop(u3, Len(fp)))
        low == lower(s)
        lsigned == low # <<>> /\ Head(low) \in {"+", "-"}
        lsign == IF low # <<>> /\ Head(low) = "-" THEN -1 ELSE 1
        lword == IF lsigned THEN Tail(low) ELSE low
    IN  IF Len(ip) + Len(fp) > 0 /\ rest = <<>>
        THEN Num(sign * DigitsToInt(ip \o fp, 0), Pow10(Len(fp)))
        ELSE IF lword \in InfWords THEN Inf(lsign)
             ELSE NaN

\* a seeded fault: a text that fails to parse becomes 0 instead of NaN
to_numeric_fill0(c) ==
    IF c.k = "str"
    THEN IF floatify(c.s).k = "nan" THEN Num(0, 1) ELSE floatify(c.s)
    ELSE c

\* pd.to_numeric(errors='coerce') on one cell of a column
to_numeric(c) == IF c.k = "str" THEN floatify(c.s) ELSE c

\* df.apply(pd.to_numeric, errors='coerce')
apply_to_numeric(df) == MapCells(df, [c \in CellsOf(df) |-> to_numeric(c)])

\* a seeded fault: dropna(how='all')
dropna_all(df) ==
    [columns |-> df.columns,
     rows |-> SelectSeq(df.rows, LAMBDA r :
                \E j \in DOMAIN r.cells : r.cells[j].k # "nan")]

\* df.dropna(inplace=True): drop the rows that hold any NaN
dropna(df) ==
    [columns |-> df.columns,
     rows |-> SelectSeq(df.rows, LAMBDA r :
                \A j \in DOMAIN r.cells : r.cells[j].k # "nan")]

\* a seeded fault: rates.get(currency, 1)
lookup_default(rt, cur) ==
    IF DictHas(rt, cur) THEN Ok(DictGet(rt, cur)) ELSE Ok([p |-> 1, q |-> 1])

\* rates[currency]
lookup(rt, cur) ==
    IF DictHas(rt, cur) THEN Ok(DictGet(rt, cur)) ELSE Err("KeyError")

\* df.iloc[:] * rate
times(df, rate) ==
    MapCells(df, [c \in CellsOf(df) |->
                   IF c.k = "num" THEN Num(c.n * rate.p, c.d * rate.q) ELSE c])

\* a seeded fault: ties rounded away from zero
round_half_up(a, b) ==
    LET f == a \div b
        r == a % b
    IN  IF 2 * r < b THEN f
        ELSE IF 2 * r > b THEN f + 1
        ELSE IF f >= 0 THEN f + 1 ELSE f

\* numpy's rint of a / b (b > 0): nearest integer, ties to the even one
round_half_even(a, b) ==
    LET f == a \div b
        r == a % b
    IN  IF 2 * r < b THEN f
        ELSE IF 2 * r > b THEN f + 1
        ELSE IF f % 2 = 0 THEN f ELSE f + 1

\* df.round(0)
round0(df) ==
    MapCells(df, [c \in CellsOf(df) |->
                   IF c.k = "num" THEN Num(round_half_even(c.n, c.d), 1)
                   ELSE c])

HasNonFinite(df) ==
    \E i \in DOMAIN df.rows : \E j \in DOMAIN df.rows[i].cells :
        df.rows[i].cells[j].k # "num"

\* .astype(int): refuses NaN and infinities
astype_int(df) ==
    IF HasNonFinite(df) THEN Err("IntCastingNaNError") ELSE Ok(df)

transform_gdps(g, rt, cur) ==
    LET df == dropna(apply_to_numeric(replace(DataFrame(g))))
        rate == lookup(rt, cur)
    IN  IF rate.err # "" THEN rate
        ELSE astype_int(round0(times(df, rate.val)))

(***************************************************************************)
(* The notebook, run top to bottom.  An exception ends the run.            *)
(***************************************************************************)
GBP == <<"G", "B", "P">>

\* file names: <<stem, currency code, extension>>
GdpsUsdJson == <<"gdps_", <<"u", "s", "d">>, ".json">>
ExchangeRatesJson == <<"exchange_rates", <<>>, ".json">>
\* f'gdps_{joiner}.csv' with joiner = currency.lower()
GdpsCsv(cur) == <<"gdps_", lower(cur), ".csv">>

\* a seeded fault: write=False, nothing is written
dump_skipped(fs, name, content) == fs

\* with open(name, 'w') as wf: json.dump(content, wf, indent=4)
dump(fs, name, content) == DictSet(fs, name, content)

Fail(e) == /\ pc' = "failed"
           /\ error' = e

\* log(message): open the log file for append and write one line
Log(here, message, next) ==
    /\ pc = here
    /\ \E written \in BOOLEAN :
          IF written
          THEN /\ logfile' = Append(logfile, message)
               /\ pc' = next
               /\ error' = error
          ELSE /\ logfile' = logfile
               /\ Fail("OSError(gdps_logfile.txt)")
    /\ UNCHANGED <<files, net, doc, cred, quotes, gdptablestext, agencies,
                   acronyms, gdps, rates, currency, gdps_transformed>>

\* (the display cells between the phases change nothing modelled here)
LogJobStarted == Log("log_job_started", "ETL Job Started",
                     "log_extract_started")

\* a seeded fault: the wrong message at the start of the extract phase
LogExtractStarted_wrong == Log("log_extract_started", "Extract phase Ended",
                               "get_html_text")

LogExtractStarted == Log("log_extract_started", "Extract phase Started",
                         "get_html_text")

\* html_text = get_html_text(URL)
GetHtmlText ==
    /\ pc = "get_html_text"
    /\ net' = Append(net, "document")
    /\ IF doc.ok
       THEN pc' = "find_table" /\ error' = error
       ELSE Fail("ConnectionError(document)")
    /\ UNCHANGED <<logfile, files, doc, cred, quotes, gdptablestext,
                   agencies, acronyms, gdps, rates, currency,
                   gdps_transformed>>

\* gdptablestext = soup.find('table', attrs={'class': 'wikitable'})
FindTable ==
    /\ pc = "find_table"
    /\ gdptablestext' = IF doc.marker THEN doc ELSE None
    /\ pc' = "agencies"
    /\ UNCHANGED <<error, logfile, files, net, doc, cred, quotes, agencies,
                   acronyms, gdps, rates, currency, gdps_transformed>>

\* agencies = [col.find('a').text.strip() for col in ...find_all('td')]
ReadAgencies ==
    /\ pc = "agencies"
    /\ IF gdptablestext = None
       THEN /\ Fail("AttributeError(no wikitable)")
            /\ agencies' = agencies
       ELSE /\ agencies' = [i \in DOMAIN gdptablestext.labels |->
                              strip(gdptablestext.labels[i])]
            /\ pc' = "acronyms"
            /\ error' = error
    /\ UNCHANGED <<logfile, files, net, doc, cred, quotes, gdptablestext,
                   acronyms, gdps, rates, currency, gdps_transformed>>

\* acronyms = [get_acronym(agency) for agency in agencies]
DeriveAcronyms ==
    /\ pc = "acronyms"
    /\ acronyms' = [i \in DOMAIN agencies |-> get_acronym(agencies[i])]
    /\ pc' = "get_all_gdps"
    /\ UNCHANGED <<error, logfile, files, net, doc, cred, quotes,
                   gdptablestext, agencies, gdps, rates, currency,
                   gdps_transformed>>

\* gdps = get_all_gdps(agencies), which also writes gdps_usd.json
GetAllGdps ==
    /\ pc = "get_all_gdps"
    /\ LET r == get_all_gdps(gdptablestext, acronyms, agencies)
       IN  IF r.err # ""
           THEN /\ Fail(r.err)
                /\ UNCHANGED <<gdps, files>>
           ELSE /\ gdps' = r.val
                /\ files' = dump(files, GdpsUsdJson, r.val)
                /\ pc' = "log_extract_ended"
                /\ error' = error
    /\ UNCHANGED <<logfile, net, doc, cred, quotes, gdptablestext, agencies,
                   acronyms, rates, currency, gdps_transformed>>

LogExtractEnded == Log("log_extract_ended", "Extract phase Ended",
                       "log_transform_started")

LogTransformStarted == Log("log_transform_started", "Transform phase Started",
                           "read_apikey")

\* a seeded fault: a missing key file is tolerated
ReadApiKey_tolerant ==
    /\ pc = "read_apikey"
    /\ pc' = "get_exchange_rates"
    /\ UNCHANGED <<error, logfile, files, net, doc, cred, quotes,
                   gdptablestext, agencies, acronyms, gdps, rates, currency,
                   gdps_transformed>>

\* with open("currencylayer_apikey.txt") as rf: API_KEY = ...
ReadApiKey ==
    /\ pc = "read_apikey"
    /\ IF cred
       THEN pc' = "get_exchange_rates" /\ error' = error
       ELSE Fail("FileNotFoundError(currencylayer_apikey.txt)")
    /\ UNCHANGED <<logfile, files, net, doc, cred, quotes, gdptablestext,
                   agencies, acronyms, gdps, rates, currency,
                   gdps_transformed>>

\* rates = get_exchange_rates(URL, write=True)
GetExchangeRates ==
    /\ pc = "get_exchange_rates"
    /\ net' = Append(net, "rates")
    /\ IF quotes.ok
       THEN /\ rates' = normalize_rates(quotes.items)
            /\ files' = dump(files, ExchangeRatesJson, rates')
            /\ pc' = "currency"
            /\ error' = error
       ELSE /\ Fail("ConnectionError(rates)")
            /\ UNCHANGED <<rates, files>>
    /\ UNCHANGED <<logfile, doc, cred, quotes, gdptablestext, agencies,
                   acronyms, gdps, currency, gdps_transformed>>

\* currency = 'GBP'
SelectCurrency ==
    /\ pc = "currency"
    /\ currency' = GBP
    /\ pc' = "transform_gdps"
    /\ UNCHANGED <<error, logfile, files, net, doc, cred, quotes,
                   gdptablestext, agencies, acronyms, gdps, rates,
                   gdps_transformed>>

\* a seeded fault: the commas are removed in the caller's dict itself
TransformGdps_inplace ==
    /\ pc = "transform_gdps"
    /\ gdps' = [j \in DOMAIN gdps |->
                 <<gdps[j][1],
                   [i \in DOMAIN gdps[j][2] |->
                      <<gdps[j][2][i][1], StripCommas(gdps[j][2][i][2])>>]>>]
    /\ LET r == transform_gdps(gdps, rates, currency)
       IN  IF r.err # ""
           THEN /\ Fail(r.err)
                /\ gdps_transformed' = gdps_transformed
           ELSE /\ gdps_transformed' = r.val
                /\ pc' = "log_transform_ended"
                /\ error' = error
    /\ UNCHANGED <<logfile, files, net, doc, cred, quotes, gdptablestext,
                   agencies, acronyms, rates, currency>>

\* gdps_transformed = transform_gdps(gdps, rates, currency=currency)
TransformGdps ==
    /\ pc = "transform_gdps"
    /\ LET r == transform_gdps(gdps, rates, currency)
       IN  IF r.err # ""
           THEN /\ Fail(r.err)
                /\ gdps_transformed' = gdps_transformed
           ELSE /\ gdps_transformed' = r.val
                /\ pc' = "log_transform_ended"
                /\ error' = error
    /\ UNCHANGED <<logfile, files, net, doc, cred, quotes, gdptablestext,
                   agencies, acronyms, gdps, rates, currency>>

\* the same call made a second time, on the arguments the first call left
TransformGdpsAgain ==
    /\ pc = "log_transform_ended"
    /\ LET r == transform_gdps(gdps, rates, currency)
       IN  IF r.err # ""
           THEN /\ Fail(r.err)
                /\ gdps_transformed' = gdps_transformed
           ELSE /\ gdps_transformed' = r.val
                /\ pc' = "transformed_again"
                /\ error' = error
    /\ UNCHANGED <<logfile, files, net, doc, cred, quotes, gdptablestext,
                   agencies, acronyms, gdps, rates, currency>>

LogTransformEnded == Log("log_transform_ended", "Transform phase Ended",
                         "log_load_started")

LogLoadStarted == Log("log_load_started", "Load phase Started", "load")

\* load(gdps_transformed, wf_type='csv')
Load ==
    /\ pc = "load"
    /\ files' = DictSet(files, GdpsCsv(currency),
                        gdps_transformed)
    /\ pc' = "log_load_ended"
    /\ UNCHANGED <<error, logfile, net, doc, cred, quotes, gdptablestext,
                   agencies, acronyms, gdps, rates, currency,
                   gdps_transformed>>

LogLoadEnded == Log("log_load_ended", "Load phase Ended", "log_job_ended")

LogJobEnded == Log("log_job_ended", "ETL Job Ended", "done")

(***************************************************************************)
(* The inputs.                                                             *)
(***************************************************************************)
\* the sequences over S of length at most n
SeqsUpTo(S, n) == UNION {[1..m -> S] : m \in 0..n}

IsInjective(f) == \A i, j \in DOMAIN f : f[i] = f[j] => i = j

Half == [p |-> 1, q |-> 2]
ThreeHalves == [p |-> 3, q |-> 2]
ThreeQuarters == [p |-> 3, q |-> 4]
RateVals == {Half, ThreeHalves, ThreeQuarters}

EUR == <<"E", "U", "R">>
USDGBP == <<"U", "S", "D", "G", "B", "P">>
USDEUR == <<"U", "S", "D", "E", "U", "R">>
EURJPY == <<"E", "U", "R", "J", "P", "Y">>
USDUSD == <<"U", "S", "D", "U", "S", "D">>
USDUSDGBP == <<"U", "S", "D", "U", "S", "D", "G", "B", "P">>

\* the keys of a raw quotes mapping
QuoteKeys == {USDGBP, GBP, EURJPY, USDUSD, USD, USDUSDGBP}

\* a JSON object read into a dict: distinct keys, in payload order
QuoteItems ==
    {[i \in DOMAIN ks |-> <<ks[i], vs[i]>>] :
        <<ks, vs>> \in
          {kv \in SeqsUpTo(QuoteKeys, MaxQuotes) \X SeqsUpTo(RateVals, MaxQuotes) :
              Len(kv[1]) = Len(kv[2]) /\ IsInjective(kv[1])}}

NoQuotes == [ok |-> FALSE, items |-> <<>>]

\* the characters of a source label
LabelChars == {" ", "\t", "W", "b"}
Labels == SeqsUpTo(LabelChars, MaxLabelLen)

\* the texts of a RawTable cell
CellTexts == { <<"5">>,
               <<"1", ",", "5">>,
               <<",", "2", ",", "5", ",">>,
               <<"2", ".", "5">>,
               <<"N", "/", "A">>,
               <<"i", "n", "f">>,
               <<"-", "5">>,
               <<>> }
FewCellTexts == { <<"5">>, <<"N", "/", "A">> }
Missing == <<"missing">>

W == <<"W">>
X == <<"X">>
WB == <<"W", "B">>
IMF == <<"I", "M", "F">>
UN == <<"U", "N">>
CIA == <<"C", "I", "A">>
SourceKeys == <<WB, IMF, UN, CIA>>

\* one source's mapping: entity W with any text or none, entity X with one
\* of a few texts or none
InnerDicts ==
    {(IF w = Missing THEN <<>> ELSE << <<W, w>> >>) \o
     (IF x = Missing THEN <<>> ELSE << <<X, x>> >>) :
        <<w, x>> \in (CellTexts \cup {Missing}) \X (FewCellTexts \cup {Missing})}

\* the RawTables of at most m sources
RawTables(m) ==
    UNION {{[j \in 1..n |-> <<SourceKeys[j], cols[j]>>] :
              cols \in [1..n -> InnerDicts]} : n \in 0..m}

RateTables == { <<>>,
                << <<EUR, ThreeQuarters>> >>,
                << <<GBP, Half>> >>,
                << <<GBP, ThreeHalves>> >>,
                << <<EUR, Half>>, <<GBP, ThreeQuarters>> >> }

Currencies == {GBP, EUR}

\* the documents of the pipeline runs
NoDoc == [ok |-> FALSE, marker |-> FALSE, labels |-> <<>>, bodies |-> <<>>]
DocNoMarker == [ok |-> TRUE, marker |-> FALSE, labels |-> <<>>, bodies |-> <<>>]
WorldBank == <<" ", "W", "o", " ", "B", "a">>
IntMonFund == <<"I", "n", " ", " ", "M", "o", " ", "F", "u", "\n">>
BodyWB == << <<>>,
             <<Plain(<<"1">>), Link(<<" ", "W">>),
               Plain(<<"1", ",", "5", " ">>)>>,
             <<Plain(<<"2">>), Link(<<"X">>), Plain(<<"N", "/", "A">>)>>,
             <<Plain(<<"n", "o", "t", "e">>)>> >>
BodyIMF == << <<>>,
              <<Plain(<<"1">>), Link(<<"W">>), Plain(<<"2", ",", "5">>)>>,
              <<Plain(<<"2">>), Link(<<"X">>), Plain(<<"5">>)>> >>
BodyInf == << <<Plain(<<"1">>), Link(<<"W">>), Plain(<<"i", "n", "f">>)>> >>
DocGood == [ok |-> TRUE, marker |-> TRUE,
            labels |-> <<WorldBank, IntMonFund>>,
            bodies |-> <<BodyWB, BodyIMF>>]
DocShort == [ok |-> TRUE, marker |-> TRUE,
             labels |-> <<WorldBank, IntMonFund>>,
             bodies |-> <<BodyWB>>]
DocInf == [ok |-> TRUE, marker |-> TRUE,
           labels |-> <<WorldBank, IntMonFund>>,
           bodies |-> <<BodyWB, BodyInf>>]
Docs == {NoDoc, DocNoMarker, DocGood, DocShort, DocInf}

PipelineQuotes ==
    { NoQuotes,
      [ok |-> TRUE, items |-> << <<USDGBP, Half>> >>],
      [ok |-> TRUE, items |-> << <<USDEUR, ThreeQuarters>> >>],
      [ok |-> TRUE, items |-> << <<USDGBP, ThreeHalves>>, <<GBP, Half>> >>] }

(***************************************************************************)
(* Specifications.                                                         *)
(***************************************************************************)
Fresh ==
    /\ error = ""
    /\ logfile = <<>>
    /\ files = <<>>
    /\ net = <<>>
    /\ gdptablestext = None
    /\ gdps_transformed = None

\* the whole notebook
Init ==
    /\ Fresh
    /\ pc = "log_job_started"
    /\ doc \in Docs
    /\ cred \in BOOLEAN
    /\ quotes \in PipelineQuotes
    /\ agencies = <<>>
    /\ acronyms = <<>>
    /\ gdps = <<>>
    /\ rates = <<>>
    /\ currency = <<>>

Next ==
    \/ LogJobStarted
    \/ LogExtractStarted
    \/ GetHtmlText
    \/ FindTable
    \/ ReadAgencies
    \/ DeriveAcronyms
    \/ GetAllGdps
    \/ LogExtractEnded
    \/ LogTransformStarted
    \/ ReadApiKey
    \/ GetExchangeRates
    \/ SelectCurrency
    \/ TransformGdps
    \/ LogTransformEnded
    \/ LogLoadStarted
    \/ Load
    \/ LogLoadEnded
    \/ LogJobEnded

Spec == Init /\ [][Next]_vars

\* get_acronym applied to every label
InitAcronym ==
    /\ Fresh
    /\ pc = "acronyms"
    /\ doc = NoDoc
    /\ cred = TRUE
    /\ quotes = NoQuotes
    /\ agencies \in {<<l>> : l \in Labels}
    /\ acronyms = <<>>
    /\ gdps = <<>>
    /\ rates = <<>>
    /\ currency = <<>>

NextAcronym == DeriveAcronyms

SpecAcronym == InitAcronym /\ [][NextAcronym]_vars

\* get_exchange_rates applied to every quotes payload
InitRates ==
    /\ Fresh
    /\ pc = "get_exchange_rates"
    /\ doc = NoDoc
    /\ cred = TRUE
    /\ quotes \in {NoQuotes} \cup {[ok |-> TRUE, items |-> q] : q \in QuoteItems}
    /\ agencies = <<>>
    /\ acronyms = <<>>
    /\ gdps = <<>>
    /\ rates = <<>>
    /\ currency = <<>>

NextRates == GetExchangeRates

SpecRates == InitRates /\ [][NextRates]_vars

\* transform_gdps applied to every RawTable, RateTable and currency
InitTransform ==
    /\ Fresh
    /\ pc = "transform_gdps"
    /\ doc = NoDoc
    /\ cred = TRUE
    /\ quotes = NoQuotes
    /\ agencies = <<>>
    /\ acronyms = <<>>
    /\ gdps \in RawTables(MaxSources)
    /\ rates \in RateTables
    /\ currency \in Currencies

NextTransform == TransformGdps

SpecTransform == InitTransform /\ [][NextTransform]_vars

(***************************************************************************)
(* Properties of transform_gdps (SpecTransform).                           *)
(***************************************************************************)
Transformed == pc = "log_transform_ended"

RowNames(df) == {df.rows[i].name : i \in DOMAIN df.rows}

EntityNames(g) == UNION {Range(DictKeys(g[j][2])) : j \in DOMAIN g}

\* the cell of entity e in one source's mapping is missing, or its text with
\* the commas removed is not a numeral
InvalidCell(inner, e) ==
    \/ ~DictHas(inner, e)
    \/ floatify(SelectSeq(DictGet(inner, e), LAMBDA c : c # ",")).k = "nan"

\* C1: an entity whose cell is missing or fails numeric coercion under at
\* least one source key is absent from the table transform_gdps returns
C1_InvalidRowsDropped ==
    Transformed =>
        \A j \in DOMAIN gdps : \A e \in EntityNames(gdps) :
            InvalidCell(gdps[j][2], e) => e \notin RowNames(gdps_transformed)

\* X is invalid under one source and valid under another and is dropped,
\* while W is valid everywhere and is kept
C1_Witness ==
    /\ Transformed
    /\ Len(gdps) = 2
    /\ InvalidCell(gdps[1][2], X)
    /\ ~InvalidCell(gdps[2][2], X)
    /\ RowNames(gdps_transformed) = {W}

\* the number a valid cell text denotes, read off its digits: the commas
\* are skipped wherever they stand
RefSign(text) == IF "-" \in Range(text) THEN -1 ELSE 1
RefNumerator(text) == RefSign(text) * DigitsToInt(SelectSeq(text, IsDigit), 0)
RefDenominator(text) ==
    IF "." \in Range(text)
    THEN LET dot == CHOOSE i \in DOMAIN text : text[i] = "."
         IN  Pow10(Cardinality({i \in DOMAIN text : i > dot /\ IsDigit(text[i])}))
    ELSE 1

Abs(x) == IF x < 0 THEN -x ELSE x

\* r is a / b (b > 0) rounded to the nearest integer, ties to the even one
IsNearestTiesEven(r, a, b) ==
    /\ 2 * Abs(a - r * b) <= b
    /\ 2 * Abs(a - r * b) = b => r % 2 = 0

RawText(g, e, s) == DictGet(DictGet(g, s), e)

\* C2: every cell of the returned table is an exact integer, the product of
\* the cell's comma-free number and the rate, rounded half to even
C2_ConvertedAndRounded ==
    Transformed =>
        \A i \in DOMAIN gdps_transformed.rows :
        \A j \in DOMAIN gdps_transformed.columns :
            LET cell == gdps_transformed.rows[i].cells[j]
                text == RawText(gdps, gdps_transformed.rows[i].name,
                                gdps_transformed.columns[j])
                rate == DictGet(rates, currency)
            IN  /\ cell.k = "num"
                /\ cell.d = 1
                /\ IsNearestTiesEven(cell.n,
                                     RefNumerator(text) * rate.p,
                                     RefDenominator(text) * rate.q)

\* ',2,5,' at rate 1/2 is the tie 12.5 and gives 12; '2.5' at 1/2 gives 1
C2_Witness ==
    /\ Transformed
    /\ Len(gdps) = 2
    /\ DictGet(rates, currency) = Half
    /\ DictHas(gdps[1][2], W) /\ DictGet(gdps[1][2], W) = <<",", "2", ",", "5", ",">>
    /\ DictHas(gdps[2][2], W) /\ DictGet(gdps[2][2], W) = <<"2", ".", "5">>
    /\ Len(gdps_transformed.rows) = 1
    /\ gdps_transformed.rows[1].cells[1].n = 12
    /\ gdps_transformed.rows[1].cells[2].n = 1

\* C3: with the target currency absent from the RateTable the call fails
\* with the rate-not-found error and returns no table, whatever the RawTable
C3_RateNotFoundIsFatal ==
    (pc # "transform_gdps" /\ ~DictHas(rates, currency)) =>
        /\ pc = "failed"
        /\ error = "KeyError"
        /\ gdps_transformed = None

\* the rate is missing and no row of the RawTable would survive filtering
C3_Witness ==
    /\ pc = "failed"
    /\ error = "KeyError"
    /\ rates # <<>>
    /\ gdps # <<>>
    /\ \A e \in EntityNames(gdps) : \E j \in DOMAIN gdps : InvalidCell(gdps[j][2], e)

\* C4: with the target currency in the RateTable, transform_gdps returns a
\* table whatever the cells hold
C4_MalformedCellNeverFatal ==
    (pc # "transform_gdps" /\ DictHas(rates, currency)) => Transformed

(***************************************************************************)
(* Properties of the notebook run (Spec).                                  *)
(***************************************************************************)
NoCredential == "FileNotFoundError(currencylayer_apikey.txt)"
LogWriteError == "OSError(gdps_logfile.txt)"

\* the fatal errors of a fetch, of the structure, of the configuration and
\* of the rate lookup
ExtractFetchErrors == {"ConnectionError(document)", "AttributeError(no wikitable)"}
FatalErrors ==
    ExtractFetchErrors \cup {NoCredential, "ConnectionError(rates)", "KeyError"}

FileNames == Range(DictKeys(files))

\* C5 as stated: a run that ends in one of the fatal errors has written no
\* file of any stage
C5_NoFileOnFatalError ==
    (pc = "failed" /\ error \in FatalErrors) => files = <<>>

\* C5 amended: a run that ends in one of the fatal errors has not written
\* the output file of the load stage; it has written gdps_usd.json once the
\* extraction was complete and exchange_rates.json once the rates were
\* fetched
C5_NoLoadFileOnFatalError ==
    (pc = "failed" /\ error \in FatalErrors) =>
        /\ GdpsCsv(GBP) \notin FileNames
        /\ error \in ExtractFetchErrors => files = <<>>
        /\ error \in {NoCredential, "ConnectionError(rates)"} =>
               DictKeys(files) = <<GdpsUsdJson>>
        /\ error = "KeyError" =>
               DictKeys(files) = <<GdpsUsdJson, ExchangeRatesJson>>

\* the currency is missing from the rates: both intermediate files exist
C5_Witness ==
    /\ pc = "failed"
    /\ error = "KeyError"
    /\ DictKeys(files) = <<GdpsUsdJson, ExchangeRatesJson>>

\* C6 as stated: the missing-credential error is raised before any network
\* call
C6_NoNetworkBeforeCredentialError ==
    error = NoCredential => net = <<>>

\* C6 amended: without the credential file no rate fetch is ever made, and
\* the missing-credential error is raised after the document fetch
C6_NoRateFetchBeforeCredentialError ==
    /\ ~cred => "rates" \notin Range(net)
    /\ error = NoCredential => net = <<"document">>

C6_Witness ==
    /\ ~cred
    /\ pc = "failed"
    /\ error = NoCredential
    /\ net = <<"document">>

PhaseEvents == <<"Extract phase Started", "Extract phase Ended",
                 "Transform phase Started", "Transform phase Ended",
                 "Load phase Started", "Load phase Ended">>

\* the phase-boundary lines of the log, in the order written
LoggedPhaseEvents == SelectSeq(logfile, LAMBDA m : m \in Range(PhaseEvents))

IsPrefix(s, t) == Len(s) <= Len(t) /\ s = SubSeq(t, 1, Len(s))

Logged(m) == m \in Range(logfile)

\* C7: the logged phase events are a prefix of the six; an end event is
\* logged only when the work of its phase is done; a failed phase logs
\* neither its end nor anything of a later phase
C7_PhaseEventsInOrder ==
    /\ IsPrefix(LoggedPhaseEvents, PhaseEvents)
    /\ Logged("Extract phase Ended") => gdps = DictGet(files, GdpsUsdJson)
    /\ Logged("Transform phase Ended") => gdps_transformed # None
    /\ Logged("Load phase Ended") =>
           DictGet(files, GdpsCsv(currency)) = gdps_transformed
    /\ error \in ExtractFetchErrors \cup {"IndexError", "ValueError"} =>
           LoggedPhaseEvents = SubSeq(PhaseEvents, 1, 1)
    /\ error \in {NoCredential, "ConnectionError(rates)", "KeyError",
                  "IntCastingNaNError"} =>
           LoggedPhaseEvents = SubSeq(PhaseEvents, 1, 3)

\* a run that failed in the transform phase, after the extract phase was
\* logged from start to end
C7_Witness ==
    /\ pc = "failed"
    /\ error = "KeyError"
    /\ gdps # <<>>
    /\ LoggedPhaseEvents = SubSeq(PhaseEvents, 1, 3)

\* C8: a failed write of a log line does not end the run
C8_LogFailureNeverFatal ==
    pc = "failed" => error # LogWriteError

(***************************************************************************)
(* Properties of get_exchange_rates (SpecRates).                           *)
(***************************************************************************)
RatesFetched == pc = "currency"

\* the key with one leading 'USD' removed, any other key as it is
Normalized(k) ==
    IF Len(k) >= 3 /\ k[1] = "U" /\ k[2] = "S" /\ k[3] = "D"
    THEN [i \in 1..(Len(k) - 3) |-> k[i + 3]]
    ELSE k

\* C9 as stated: every raw key is in the RateTable in its normalised form,
\* with the value the raw key had
C9_KeysNormalizedValuesKept ==
    RatesFetched =>
        \A i \in DOMAIN quotes.items :
            /\ DictHas(rates, Normalized(quotes.items[i][1]))
            /\ DictGet(rates, Normalized(quotes.items[i][1])) = quotes.items[i][2]

\* the last raw entry whose key normalises as the i-th does
LastLike(i) ==
    CHOOSE j \in DOMAIN quotes.items :
        /\ Normalized(quotes.items[j][1]) = Normalized(quotes.items[i][1])
        /\ \A l \in DOMAIN quotes.items :
               Normalized(quotes.items[l][1]) = Normalized(quotes.items[i][1])
                   => l <= j

\* C9 amended: every raw key is in the RateTable in its normalised form and
\* nothing else is; a normalised key carries the value of the last raw key
\* of the payload that normalises to it, which is the value of its own raw
\* key when no two raw keys normalise alike
C9_KeysNormalizedLastValueKept ==
    RatesFetched =>
        /\ Range(DictKeys(rates)) =
               {Normalized(quotes.items[i][1]) : i \in DOMAIN quotes.items}
        /\ IsInjective(DictKeys(rates))
        /\ \A i \in DOMAIN quotes.items :
               DictGet(rates, Normalized(quotes.items[i][1])) =
                   quotes.items[LastLike(i)][2]

\* 'USDGBP' became 'GBP' and 'EURJPY' stayed, each with its value
C9_Witness ==
    /\ RatesFetched
    /\ quotes.items = << <<USDGBP, Half>>, <<EURJPY, ThreeHalves>> >>
    /\ rates = << <<GBP, Half>>, <<EURJPY, ThreeHalves>> >>

(***************************************************************************)
(* Properties of get_acronym (SpecAcronym).                                *)
(***************************************************************************)
AcronymsDerived == pc = "get_all_gdps"

\* the positions of label at which a word begins
WordStarts(label) ==
    {i \in DOMAIN label :
        ~IsSpace(label[i]) /\ (i = 1 \/ IsSpace(label[i - 1]))}

\* the position at which the n-th word of label begins
NthWordStart(label, n) ==
    CHOOSE i \in WordStarts(label) :
        Cardinality({j \in WordStarts(label) : j <= i}) = n

\* C10: the acronym of a label of k words has k characters, the i-th being
\* the first character of the i-th word; it is empty for a label without
\* words
C10_AcronymIsInitials ==
    AcronymsDerived =>
        \A a \in DOMAIN agencies :
            LET label == agencies[a]
                k == Cardinality(WordStarts(label))
            IN  /\ Len(acronyms[a]) = k
                /\ \A n \in 1..k :
                       acronyms[a][n] = label[NthWordStart(label, n)]

\* two words of mixed case behind leading whitespace, a tab between them
C10_Witness ==
    /\ AcronymsDerived
    /\ agencies = << <<" ", "W", "\t", "b">> >>
    /\ acronyms = << <<"W", "b">> >>

(***************************************************************************)
(* transform_gdps called twice (SpecTwice).                                *)
(***************************************************************************)
NextTwice == TransformGdps \/ TransformGdpsAgain

SpecTwice == InitTransform /\ [][NextTwice]_vars

WBLabel == <<"W", " ", "B">>
ILabel == <<"I">>
ExtractLabels == {WBLabel, WorldBank, ILabel}
ExtractBodies == {BodyWB, BodyIMF, BodyInf}

\* documents with n labels and n sub-table bodies, or one body fewer
ExtractDocs ==
    UNION {UNION {{[ok |-> TRUE, marker |-> TRUE, labels |-> ls, bodies |-> bs] :
                      ls \in [1..n -> ExtractLabels],
                      bs \in [1..m -> ExtractBodies]} : m \in {n - 1, n}} :
              n \in 1..MaxAgencies}

RowHeader == <<>>
RowW1 == <<Plain(<<"1">>), Link(<<" ", "W">>), Plain(<<"1", ",", "5", " ">>)>>
RowW2 == <<Plain(<<"2">>), Link(<<"W", " ">>), Plain(<<"5">>)>>
RowX == <<Plain(<<"3">>), Td(<<"X">>, <<"X", "*">>), Plain(<<" ", "N", "/", "A">>)>>
RowFour == <<Plain(<<"4">>), Link(<<"Y">>), Plain(<<"5">>), Plain(<<"x">>)>>
RowTwo == <<Link(<<"Y">>), Plain(<<"5">>)>>
RowNoAnchor == <<Plain(<<"5">>), Plain(<<"Z">>), Plain(<<"5">>)>>
Rows == {RowHeader, RowW1, RowW2, RowX, RowFour, RowTwo, RowNoAnchor}

\* documents of one source whose sub-table has any rows
RowDocs ==
    {[ok |-> TRUE, marker |-> TRUE, labels |-> <<WBLabel>>, bodies |-> <<b>>] :
        b \in SeqsUpTo(Rows, MaxRows)}

\* the state in which the table node has just been found in the document
Found(docs) ==
    /\ error = ""
    /\ logfile = <<"ETL Job Started", "Extract phase Started">>
    /\ files = <<>>
    /\ net = <<"document">>
    /\ gdps_transformed = None
    /\ pc = "agencies"
    /\ doc \in docs
    /\ gdptablestext = doc
    /\ cred = TRUE
    /\ quotes = NoQuotes
    /\ agencies = <<>>
    /\ acronyms = <<>>
    /\ gdps = <<>>
    /\ rates = <<>>
    /\ currency = <<>>

InitExtract == Found(ExtractDocs)

NextExtract == ReadAgencies \/ DeriveAcronyms \/ GetAllGdps

SpecExtract == InitExtract /\ [][NextExtract]_vars

InitRows == Found(RowDocs)

SpecRows == InitRows /\ [][NextExtract]_vars

Extracted == pc = "log_extract_ended"

\* C12: the key of the i-th source is looked up at position i of the key
\* list, and the mapping stored for the i-th source is the one of the i-th
\* sub-table body (stated of every source whose entry no later source
\* overwrites)
C12_SourceAtItsPosition ==
    Extracted =>
        \A i \in DOMAIN acronyms :
            /\ Index(acronyms, acronyms[i]) = i
            /\ (\A l \in (i + 1)..Len(acronyms) : acronyms[l] # acronyms[i]) =>
                   DictGet(gdps, acronyms[i]) =
                       GdpsOfRows(doc.bodies[i], <<>>).val

\* the text without its leading and trailing whitespace
NonSpaces(t) == {i \in DOMAIN t : ~IsSpace(t[i])}
Least(S) == CHOOSE x \in S : \A y \in S : x <= y
Greatest(S) == CHOOSE x \in S : \A y \in S : x >= y
Trimmed(t) ==
    IF NonSpaces(t) = {} THEN <<>>
    ELSE [i \in 1..(Greatest(NonSpaces(t)) - Least(NonSpaces(t)) + 1) |->
            t[i + Least(NonSpaces(t)) - 1]]

\* the rows of a body that have exactly three cells
ThreeCellRows(body) == {r \in DOMAIN body : Len(body[r]) = 3}

\* C13: the mapping of a sub-table has an entry for the trimmed names of the
\* rows of exactly three cells and for nothing else, each with the trimmed
\* value of the last such row of that name; rows of another cell count raise
\* no error
C13_ThreeCellRowsLastWins ==
    LET body == doc.bodies[1]
        name(r) == Trimmed(body[r][2].anchor)
    IN  /\ Extracted =>
            /\ Range(DictKeys(gdps[1][2])) = {name(r) : r \in ThreeCellRows(body)}
            /\ IsInjective(DictKeys(gdps[1][2]))
            /\ \A r \in ThreeCellRows(body) :
                   (\A l \in ThreeCellRows(body) : l > r => name(l) # name(r))
                       => DictGet(gdps[1][2], name(r)) = Trimmed(body[r][3].text)
        /\ pc = "failed" =>
               \E r \in ThreeCellRows(body) : body[r][2].anchor = NoAnchor

\* a row of four cells is skipped and the second row named W replaces the
\* value of the first
C13_Witness ==
    /\ Extracted
    /\ doc.bodies = << <<RowFour, RowW1, RowW2>> >>
    /\ gdps = << <<WB, << <<W, <<"5">>>> >> >> >>

(***************************************************************************)
(* The row order of transform_gdps (SpecOrder).                            *)
(***************************************************************************)
Y == <<"Y">>

Z == <<"Z">>
Entities == <<W, X, Y, Z>>

\* one source's mapping: any of the first m entities in any order, W and X
\* with a numeral or with a text that is none, the others with a numeral
OrderedDicts(m) ==
    {[i \in DOMAIN es |->
        <<es[i], IF es[i] \in bad THEN <<"N", "/", "A">> ELSE <<"5">> >>] :
        <<es, bad>> \in {eb \in SeqsUpTo(Range(SubSeq(Entities, 1, m)), m)
                                   \X SUBSET {W, X} :
                           IsInjective(eb[1]) /\ eb[2] \subseteq Range(eb[1])}}

\* the same with every text a numeral
ValidDicts(m) ==
    {d \in OrderedDicts(m) : \A i \in DOMAIN d : d[i][2] = <<"5">>}

\* the RawTables of one source, and of two with the second all numerals,
\* over the first m entities
OrderedTables(m) ==
    {<< <<WB, d>> >> : d \in OrderedDicts(m)} \cup
    {<< <<WB, d>>, <<IMF, e>> >> : d \in OrderedDicts(m), e \in ValidDicts(m)}

InitOrder ==
    /\ Fresh
    /\ pc = "transform_gdps"
    /\ doc = NoDoc
    /\ cred = TRUE
    /\ quotes = NoQuotes
    /\ agencies = <<>>
    /\ acronyms = <<>>
    /\ gdps \in OrderedTables(MaxEntities)
    /\ rates = << <<GBP, Half>> >>
    /\ currency = GBP

NextOrder == TransformGdps

SpecOrder == InitOrder /\ [][NextOrder]_vars

\* the first source, in document order, that has entity e
FirstSource(e) == Least({j \in DOMAIN gdps : DictHas(gdps[j][2], e)})

\* the place of entity e in the mapping of source j
PlaceIn(j, e) == CHOOSE i \in DOMAIN gdps[j][2] : gdps[j][2][i][1] = e

\* a was met before b when the RawTable was built, source after source
DiscoveredBefore(a, b) ==
    \/ FirstSource(a) < FirstSource(b)
    \/ /\ FirstSource(a) = FirstSource(b)
       /\ PlaceIn(FirstSource(a), a) < PlaceIn(FirstSource(a), b)

\* C14: of two rows of the returned table, one comes before the other
\* exactly when its entity was discovered before the other's
C14_RowsInDiscoveryOrder ==
    Transformed =>
        \A a, b \in DOMAIN gdps_transformed.rows :
            a # b =>
                (a < b <=> DiscoveredBefore(gdps_transformed.rows[a].name,
                                            gdps_transformed.rows[b].name))

\* Y, X, W were discovered in this order; X is dropped and Y stays before W
C14_Witness ==
    /\ Transformed
    /\ DictKeys(gdps[1][2]) = <<Y, X, W>>
    /\ [i \in DOMAIN gdps_transformed.rows |-> gdps_transformed.rows[i].name]
           = <<Y, W>>

=============================================================================
